---- MODULE Spec2Model ----
(***************************************************************************)
(* r-stocks-sentiment: the record schema (models.py), the plot renderer    *)
(* (services/visualization_service.py), the reddit service                 *)
(* (services/reddit_service.py) and the tools of server.py.                *)
(*                                                                         *)
(* Three specifications share the variables: Spec runs the renderer's      *)
(* calls one at a time, SpecReddit the calls of the reddit service, and    *)
(* SpecConc two create_plot calls with their steps interleaved.            *)
(*                                                                         *)
(* Text is a sequence of atoms.  An atom is one character, or a run of     *)
(* characters that the model never needs to look inside (a chunk of the    *)
(* static template, a piece of markup inside caller-supplied text).        *)
(* Floats are fixed-point integers in units of 1/Scale: 0.77 is 7700,      *)
(* 1.0001 is 10001.  Products and sums of floats are taken exactly; the    *)
(* values that are not finite numbers (nan, inf) are not among the inputs. *)
(* The white space that lays out the template is left out of the text.    *)
(***************************************************************************)
EXTENDS Integers, Sequences, FiniteSets, TLC

Scale == 100 * 100

\* ------------------------------------------------------------------ text

Max(a, b) == IF a >= b THEN a ELSE b

Min(a, b) == IF a <= b THEN a ELSE b

RECURSIVE Flatten(_)
\* "".join(parts)
Flatten(parts) ==
    IF parts = <<>> THEN <<>> ELSE Head(parts) \o Flatten(Tail(parts))

\* needle in hay (Python's substring test)
Contains(hay, needle) ==
    \E i \in 1..(Len(hay) - Len(needle) + 1) :
        SubSeq(hay, i, i + Len(needle) - 1) = needle

\* the number of (possibly overlapping) places where needle starts in hay
Count(hay, needle) ==
    Cardinality({i \in 1..(Len(hay) - Len(needle) + 1) :
                    SubSeq(hay, i, i + Len(needle) - 1) = needle})

\* the atoms that stand for more than one character, with their lengths
LongAtoms ==
    [a \in {"<ul>", "<li>", "</a>"} |-> 4] @@ [a \in {"</li>", "</ul>"} |-> 5]
    @@ [a \in {"<a>"} |-> 3]
    @@ [a \in {"<p>No links available</p>"} |-> 25]
    @@ [a \in {"https://"} |-> 8] @@ [a \in {"http://"} |-> 7]
    @@ [a \in {"ftp://"} |-> 6] @@ [a \in {"x.com"} |-> 5]

AtomLen(a) == IF a \in DOMAIN LongAtoms THEN LongAtoms[a] ELSE 1

RECURSIVE ExtraLen(_, _)
\* the characters of text beyond one per atom, for the long atoms in as
ExtraLen(text, as) ==
    IF as = {} THEN 0
    ELSE LET a == CHOOSE x \in as : TRUE IN
         (LongAtoms[a] - 1) * Cardinality({i \in 1..Len(text) : text[i] = a})
         + ExtraLen(text, as \ {a})

\* len(text), in characters
CharLen(text) == Len(text) + ExtraLen(text, DOMAIN LongAtoms)

\* n copies of the atom a
Repeat(a, n) == [i \in 1..n |-> a]

HexDigits ==
    {"0", "1", "2", "3", "4", "5", "6", "7", "8", "9",
     "a", "b", "c", "d", "e", "f", "A", "B", "C", "D", "E", "F"}

UpperLetters ==
    {"A", "B", "C", "D", "E", "F", "G", "H", "I", "J", "K", "L", "M",
     "N", "O", "P", "Q", "R", "S", "T", "U", "V", "W", "X", "Y", "Z"}

LineBreak == "\n"

\* --------------------------------------------------------------- numbers

Digits == <<"0", "1", "2", "3", "4", "5", "6", "7", "8", "9">>

RECURSIVE IntText(_)
\* the decimal digits of n >= 0
IntText(n) ==
    IF n < 10 THEN <<Digits[n + 1]>>
    ELSE IntText(n \div 10) \o <<Digits[(n % 10) + 1]>>

Abs(v) == IF v < 0 THEN -v ELSE v

\* format(v, ".2f"): the value rounded to the nearest hundredth, ties to the
\* even hundredth (the ties the inputs hold are multiples of 1/8, which a
\* binary float holds exactly); a negative value keeps its sign even when
\* it rounds to zero ("-0.00").
Fmt2(v) ==
    LET a == Abs(v)
        q == a \div 100
        r == a % 100
        h == IF r > 50 \/ (r = 50 /\ q % 2 = 1) THEN q + 1 ELSE q
    IN  (IF v < 0 THEN <<"-">> ELSE <<>>)
        \o IntText(h \div 100) \o <<".">>
        \o <<Digits[((h \div 10) % 10) + 1], Digits[(h % 10) + 1]>>

RECURSIVE StripZeros(_)
StripZeros(ds) ==
    IF Len(ds) > 1 /\ ds[Len(ds)] = "0"
    THEN StripZeros(SubSeq(ds, 1, Len(ds) - 1)) ELSE ds

\* repr(float), as json.dumps writes a float: the shortest decimal, with at
\* least one digit after the point
FloatRepr(v) ==
    LET a == Abs(v)
        f == a % Scale
    IN  (IF v < 0 THEN <<"-">> ELSE <<>>)
        \o IntText(a \div Scale) \o <<".">>
        \o StripZeros(<<Digits[(f \div 1000) + 1], Digits[((f \div 100) % 10) + 1],
                        Digits[((f \div 10) % 10) + 1], Digits[(f % 10) + 1]>>)

\* ----------------------------------------------------------------- regex
\* A pattern is a sequence of items: an anchor, or a one-character matcher
\* repeated between lo and hi times (hi = -1: unbounded).

Bol == [m |-> "^", lo |-> 1, hi |-> 1]

Eol == [m |-> "$", lo |-> 1, hi |-> 1]

Rep(m, lo, hi) == [m |-> m, lo |-> lo, hi |-> hi]

Lit(c) == [m |-> c, lo |-> 1, hi |-> 1]

\* whether the atom a is matched by the one-character matcher m:
\* "." is any character but a line break, "[A-Z]" a class, anything else
\* a literal
MatchesOne(m, a) ==
    CASE m = "." -> a # LineBreak
      [] m = "[A-Z]" -> a \in UpperLetters
      [] m = "[0-9a-fA-F]" -> a \in HexDigits
      [] OTHER -> a = m

RECURSIVE MatchFrom(_, _, _, _)
\* whether items k.. of pat match s from position pos on (backtracking over
\* the repetition counts); "$" is the end of the text only
MatchFrom(pat, k, s, pos) ==
    IF k > Len(pat) THEN TRUE
    ELSE LET it == pat[k] IN
         CASE it.m = "^" -> pos = 1 /\ MatchFrom(pat, k + 1, s, pos)
           [] it.m = "$" -> pos = Len(s) + 1 /\ MatchFrom(pat, k + 1, s, pos)
           [] OTHER ->
                LET most == IF it.hi < 0 THEN Len(s) - pos + 1
                            ELSE Min(it.hi, Len(s) - pos + 1)
                IN  \E n \in it.lo..most :
                        /\ \A j \in pos..(pos + n - 1) : MatchesOne(it.m, s[j])
                        /\ MatchFrom(pat, k + 1, s, pos + n)

\* the pattern constraint of a str field: the pattern is searched for in s
Search(pat, s) == \E start \in 1..(Len(s) + 1) : MatchFrom(pat, 1, s, start)

\* ---------------------------------------------------------------- schema

TITLE_MIN == 1

TITLE_MAX == 200

SUMMARY_MAX == 2000

\* r"^.+ \(([A-Z]{1,5})\)$"
SYMBOL_PATTERN_6 ==
    <<Bol, Rep(".", 1, -1), Lit(" "), Lit("("), Rep("[A-Z]", 1, 6), Lit(")"), Eol>>

SYMBOL_PATTERN ==
    <<Bol, Rep(".", 1, -1), Lit(" "), Lit("("), Rep("[A-Z]", 1, 5), Lit(")"), Eol>>

SymbolOk(s) == Search(SYMBOL_PATTERN, s)

SentimentOk_open(v) == v > -Scale /\ v < Scale

\* ge=-1.0, le=1.0
SentimentOk(v) == v >= -Scale /\ v <= Scale

\* ge=0.0, le=1.0
PresenceOk(v) == v >= 0 /\ v <= Scale

\* max_length=2000
SummaryOk(s) == CharLen(s) <= SUMMARY_MAX

\* min_length=1, max_length=200
TitleOk(t) == CharLen(t) >= TITLE_MIN /\ CharLen(t) <= TITLE_MAX

\* HttpUrl: an http or https scheme, then a host, then nothing or a path
UrlOk(u) ==
    /\ Len(u) >= 2
    /\ u[1] \in {"http://", "https://"}
    /\ u[2] = "x.com"
    /\ Len(u) >= 3 => u[3] = "/"

\* str(url) of a parsed HttpUrl: an empty path is written "/"
UrlStr(u) == IF Len(u) = 2 THEN u \o <<"/">> ELSE u

\* the errors of one Link at position j of the links of a record
LinkErrors(l, j) ==
    (IF UrlOk(l.url) THEN {} ELSE {<<"links", j, "url">>})
    \cup (IF TitleOk(l.title) THEN {} ELSE {<<"links", j, "title">>})

\* PlotDataPoint(**raw): every field is checked and every failure reported,
\* as the path of the failing field
RecordErrors(raw) ==
    (IF SymbolOk(raw.symbol) THEN {} ELSE {<<"symbol">>})
    \cup (IF SentimentOk(raw.sentiment) THEN {} ELSE {<<"sentiment">>})
    \cup (IF PresenceOk(raw.presence) THEN {} ELSE {<<"presence">>})
    \cup (IF SummaryOk(raw.summary) THEN {} ELSE {<<"summary">>})
    \cup UNION {LinkErrors(raw.links[j], j) : j \in 1..Len(raw.links)}

\* the validated record: the fields as given, each url parsed
Parsed(raw) ==
    [symbol |-> raw.symbol, sentiment |-> raw.sentiment,
     presence |-> raw.presence, summary |-> raw.summary,
     links |-> [j \in 1..Len(raw.links) |->
                   [url |-> UrlStr(raw.links[j].url), title |-> raw.links[j].title]]]

\* -------------------------------------------------------------- renderer

\* self.colors
colors ==
    << <<"#", "F", "F", "6", "3", "8", "4">>,
       <<"#", "3", "6", "A", "2", "E", "B">>,
       <<"#", "F", "F", "C", "E", "5", "6">>,
       <<"#", "4", "B", "C", "0", "C", "0">>,
       <<"#", "9", "9", "6", "6", "F", "F">>,
       <<"#", "F", "F", "9", "F", "4", "0">>,
       <<"#", "F", "F", "6", "3", "8", "4">>,
       <<"#", "C", "9", "C", "B", "C", "F">>,
       <<"#", "4", "B", "C", "0", "C", "0">>,
       <<"#", "F", "F", "6", "3", "8", "4">> >>

PointRadius_nofloor(presence) == Min(20 * Scale, presence * 20)

\* max(5, min(20, presence * 20))
PointRadius(presence) == Max(5 * Scale, Min(20 * Scale, presence * 20))

Dataset_halfcycle(palette, i, item) ==
    LET point_radius == PointRadius(item.presence) IN
    [label |-> item.symbol,
     data |-> <<[x |-> item.sentiment, y |-> item.presence]>>,
     backgroundColor |-> palette[(i % (Len(palette) \div 2)) + 1],
     borderColor |-> palette[(i % (Len(palette) \div 2)) + 1],
     pointRadius |-> point_radius,
     pointHoverRadius |-> point_radius + 3 * Scale]

Dataset_nextcolor(palette, i, item) ==
    LET point_radius == PointRadius(item.presence) IN
    [label |-> item.symbol,
     data |-> <<[x |-> item.sentiment, y |-> item.presence]>>,
     backgroundColor |-> palette[(i % Len(palette)) + 1],
     borderColor |-> palette[((i + 1) % Len(palette)) + 1],
     pointRadius |-> point_radius,
     pointHoverRadius |-> point_radius + 3 * Scale]

\* the PlotDatasetPoint built for the record item at index i (from 0)
Dataset(palette, i, item) ==
    LET point_radius == PointRadius(item.presence) IN
    [label |-> item.symbol,
     data |-> <<[x |-> item.sentiment, y |-> item.presence]>>,
     backgroundColor |-> palette[(i % Len(palette)) + 1],
     borderColor |-> palette[(i % Len(palette)) + 1],
     pointRadius |-> point_radius,
     pointHoverRadius |-> point_radius + 3 * Scale]

RECURSIVE DatasetsLoop(_, _, _, _)
\* the loop of _generate_datasets: datasets holds the descriptors of the
\* records before index i, the rest of data is still to be visited
DatasetsLoop(palette, data, i, datasets) ==
    IF i >= Len(data) THEN datasets
    ELSE DatasetsLoop(palette, data, i + 1,
                      Append(datasets, Dataset(palette, i, data[i + 1])))

_generate_datasets(data) == DatasetsLoop(colors, data, 0, <<>>)

\* r"^#[0-9a-fA-F]{6}$"
COLOR_PATTERN == <<Bol, Lit("#"), Rep("[0-9a-fA-F]", 6, 6), Eol>>

\* the Python type of max(5, min(20, presence * 20)): min and max give back
\* one of their arguments, the first one unless a later one is smaller
\* (larger), so a clamped radius is the int 5 or the int 20
PointRadiusType(presence) ==
    LET x == presence * 20
        inner == IF x < 20 * Scale THEN "float" ELSE "int"
        m == IF x < 20 * Scale THEN x ELSE 20 * Scale
    IN  IF m > 5 * Scale THEN inner ELSE "int"

StrictFloatOk_exact(type) == type = "float"

\* StrictFloat: a float, or an int (which is stored as a float); no str, no bool
StrictFloatOk(type) == type \in {"float", "int"}

\* PlotDatasetPoint(...) for the descriptor d of the record item: the fields
\* that fail the descriptor's schema
DatasetErrors(item, d) ==
    (IF Len(d.data) >= 1 THEN {} ELSE {<<"data">>})
    \cup (IF Search(COLOR_PATTERN, d.backgroundColor) THEN {} ELSE {<<"backgroundColor">>})
    \cup (IF Search(COLOR_PATTERN, d.borderColor) THEN {} ELSE {<<"borderColor">>})
    \cup (IF StrictFloatOk(PointRadiusType(item.presence)) THEN {} ELSE {<<"pointRadius">>})
    \cup (IF StrictFloatOk(PointRadiusType(item.presence)) THEN {}
          ELSE {<<"pointHoverRadius">>})

\* the colour of the sentiment value in a stock box
SentimentColor(sentiment) ==
    IF sentiment > 0 THEN "#28a745"
    ELSE IF sentiment < 0 THEN "#dc3545" ELSE "#6c757d"

NoLinks == "<p>No links available</p>"

\* '<li><a href="{url}" target="_blank">{title}</a></li>'
LinkItem(link) ==
    <<"<li>", "<a href=\"">> \o link.url \o <<"\" target=\"_blank\">">>
    \o link.title \o <<"</a>", "</li>">>

RECURSIVE LinksLoop(_, _, _)
LinksLoop(links, j, links_html) ==
    IF j > Len(links) THEN links_html
    ELSE LinksLoop(links, j + 1, links_html \o LinkItem(links[j]))

\* links_html of one record
LinksHtml(links) ==
    IF links # <<>> THEN LinksLoop(links, 1, <<"<ul>">>) \o <<"</ul>">>
    ELSE <<NoLinks>>

\* the stock box of one record
StockBox(item) ==
    <<"<div class=\"stock-box\">", "<div class=\"stock-header\">">>
    \o item.symbol
    \o <<"</div>", "<div class=\"stock-metrics\">",
         "<div class=\"metric\">", "<div class=\"metric-label\">Sentiment</div>",
         "<div class=\"metric-value\" style=\"color: ",
         SentimentColor(item.sentiment), "\">">>
    \o Fmt2(item.sentiment)
    \o <<"</div>", "</div>",
         "<div class=\"metric\">", "<div class=\"metric-label\">Presence</div>",
         "<div class=\"metric-value\">">>
    \o Fmt2(item.presence)
    \o <<"</div>", "</div>", "</div>",
         "<div class=\"summary\">", "<h4>Analysis Summary</h4>", "<p>">>
    \o item.summary
    \o <<"</p>", "</div>",
         "<div class=\"links\">", "<h4>Related Posts</h4>">>
    \o LinksHtml(item.links)
    \o <<"</div>", "</div>">>

RECURSIVE BoxesLoop(_, _, _)
\* the loop of _generate_stock_boxes_html: boxes_html holds the boxes of
\* the records before position k
BoxesLoop(stock_data, k, boxes_html) ==
    IF k > Len(stock_data) THEN boxes_html
    ELSE BoxesLoop(stock_data, k + 1, boxes_html \o StockBox(stock_data[k]))

RECURSIVE BoxesLoop_prepend(_, _, _)
BoxesLoop_prepend(stock_data, k, boxes_html) ==
    IF k > Len(stock_data) THEN boxes_html
    ELSE BoxesLoop_prepend(stock_data, k + 1, StockBox(stock_data[k]) \o boxes_html)

_generate_stock_boxes_html_prepend(stock_data) == BoxesLoop_prepend(stock_data, 1, <<>>)


_generate_stock_boxes_html(stock_data) == BoxesLoop(stock_data, 1, <<>>)

RECURSIVE JsonEscape(_)
\* the body of a JSON string: a quote and a backslash are escaped
JsonEscape(text) ==
    IF text = <<>> THEN <<>>
    ELSE (IF Head(text) \in {"\"", "\\"} THEN <<"\\", Head(text)>>
          ELSE <<Head(text)>>) \o JsonEscape(Tail(text))

JsonStr(text) == <<"\"">> \o JsonEscape(text) \o <<"\"">>

\* json.dumps of one point {"x": .., "y": ..}
JsonPoint(pt) ==
    <<"{\"x\": ">> \o FloatRepr(pt.x) \o <<", \"y\": ">> \o FloatRepr(pt.y)
    \o <<"}">>

RECURSIVE JsonJoin(_)
\* ", ".join(parts)
JsonJoin(parts) ==
    IF parts = <<>> THEN <<>>
    ELSE IF Len(parts) = 1 THEN Head(parts)
    ELSE Head(parts) \o <<", ">> \o JsonJoin(Tail(parts))

\* json.dumps(dataset.model_dump())
JsonDataset(d) ==
    <<"{\"label\": ">> \o JsonStr(d.label)
    \o <<", \"data\": [">>
    \o JsonJoin([j \in 1..Len(d.data) |-> JsonPoint(d.data[j])]) \o <<"]">>
    \o <<", \"backgroundColor\": ">> \o JsonStr(d.backgroundColor)
    \o <<", \"borderColor\": ">> \o JsonStr(d.borderColor)
    \o <<", \"pointRadius\": ">> \o FloatRepr(d.pointRadius)
    \o <<", \"pointHoverRadius\": ">> \o FloatRepr(d.pointHoverRadius)
    \o <<"}">>

JsonDatasets_null(datasets) ==
    IF datasets = <<>> THEN <<"null">>
    ELSE <<"[">> \o JsonJoin([j \in 1..Len(datasets) |-> JsonDataset(datasets[j])])
         \o <<"]">>

\* json.dumps([dataset.model_dump() for dataset in datasets])
JsonDatasets(datasets) ==
    <<"[">> \o JsonJoin([j \in 1..Len(datasets) |-> JsonDataset(datasets[j])])
    \o <<"]">>

\* the static text of the template before the stock boxes, between the
\* boxes and the datasets, and after the datasets
TemplateHead ==
    <<"<!DOCTYPE html>", "<html lang=\"en\">", "<head>",
      "<title>r/Stocks Sentiment Analysis</title>",
      "<script src=\"https://cdn.jsdelivr.net/npm/chart.js\"></script>",
      "<style>", "</style>", "</head>", "<body>",
      "<div class=\"container\">", "<canvas id=\"sentimentChart\"></canvas>",
      "<div class=\"data-section\">", "<h2>Stock Analysis Details</h2>">>

TemplateMiddle ==
    <<"</div>", "</div>", "<script>",
      "const chart = new Chart(ctx, { type: 'scatter', data: { datasets: ">>

TemplateTail ==
    <<" }, options: { legend, tooltip, scales: { x: [-1.1, 1.1], y: [0, 1.1] } } });",
      "</script>", "</body>", "</html>">>

_get_html_template(datasets, stock_boxes_html) ==
    TemplateHead \o stock_boxes_html \o TemplateMiddle
    \o JsonDatasets(datasets) \o TemplateTail

\* ---------------------------------------------------------------- inputs

MaxTicker == 7

MaxRecords == 12

AppleInc == <<"A", "p", "p", "l", "e", " ", "I", "n", "c", ".">>

TeslaInc == <<"T", "e", "s", "l", "a", " ", "I", "n", "c", ".">>

\* the parts a symbol is put together from: a name, a separator, an opening
\* bracket, a ticker, a closing bracket and a tail
NameInputs == {<<>>, AppleInc, <<"T">>, <<" ">>, <<"A", LineBreak, "B">>}

TickerInputs ==
    {Repeat("A", n) : n \in 0..MaxTicker}
    \cup {<<"A", "A", "P", "L">>, <<"T", "O", "O", "L", "O", "N", "G">>, <<"a", "a", "p", "l">>, <<"A", "a">>, <<"A", "1">>, <<"A", " ", "B">>}

SymbolInputs ==
    {name \o sep \o open \o ticker \o close \o tail :
        name \in NameInputs, sep \in {<<>>, <<" ">>}, open \in {<<>>, <<"(">>},
        ticker \in TickerInputs, close \in {<<>>, <<")">>},
        tail \in {<<>>, <<" ">>, <<LineBreak>>}}

SentimentInputs ==
    {-2 * Scale, -Scale - 1, -Scale, -Scale + 1, -4200, -1250, -1, 0, 1, 4200,
     Scale - 1, Scale, Scale + 1, 2 * Scale}

PresenceInputs ==
    {-Scale, -1, 0, 1, 1250, 2499, 2500, 2501, 7700, Scale - 1, Scale,
     Scale + 1, 2 * Scale}

PostUrl == <<"https://", "x.com", "/", "p", "/", "1">>

HostUrl == <<"http://", "x.com">>

\* the record of the end-to-end scenario
Tesla ==
    [symbol |-> TeslaInc \o <<" ", "(", "T", "S", "L", "A", ")">>, sentiment |-> 4200, presence |-> 7700,
     summary |-> <<"B", "u", "l", "l", "i", "s", "h", " ", "o", "n", " ", "d", "e", "l", "i", "v", "e", "r", "i", "e", "s">>,
     links |-> <<[url |-> PostUrl, title |-> <<"Q", "3", " ", "e", "a", "r", "n", "i", "n", "g", "s", " ", "b", "e", "a", "t">>]>>]

SummaryInputs ==
    {<<>>, Repeat("x", SUMMARY_MAX), Repeat("x", SUMMARY_MAX + 1),
     <<"<ul>", "<li>", "x", "</li>", "</ul>">>, <<NoLinks>>}

LinksInputs ==
    {<<>>,
     <<[url |-> HostUrl, title |-> <<"a">>], [url |-> PostUrl, title |-> <<"b">>]>>,
     <<[url |-> <<"ftp://", "x.com", "/">>, title |-> <<"a">>]>>,
     <<[url |-> <<"x.com">>, title |-> <<"a">>]>>,
     <<[url |-> PostUrl, title |-> <<>>]>>,
     <<[url |-> PostUrl, title |-> Repeat("t", TITLE_MAX)]>>,
     <<[url |-> PostUrl, title |-> Repeat("t", TITLE_MAX + 1)]>>,
     <<[url |-> PostUrl, title |-> <<"a">>], [url |-> <<>>, title |-> <<>>]>>}

\* raw records: the scenario's record with one field replaced
RawInputs ==
    {[Tesla EXCEPT !.symbol = s] : s \in SymbolInputs}
    \cup {[Tesla EXCEPT !.sentiment = v] : v \in SentimentInputs}
    \cup {[Tesla EXCEPT !.presence = v] : v \in PresenceInputs}
    \cup {[Tesla EXCEPT !.summary = t] : t \in SummaryInputs}
    \cup {[Tesla EXCEPT !.links = l] : l \in LinksInputs}

\* a few raw records, valid and not, to make batches of two from
MixInputs ==
    {Tesla,
     [Tesla EXCEPT !.symbol = AppleInc \o <<" ", "(", "A", "A", "P", "L", ")">>, !.links = <<>>],
     [Tesla EXCEPT !.symbol = AppleInc \o <<" ", "(", "a", "a", "p", "l", ")">>],
     [Tesla EXCEPT !.sentiment = -Scale, !.presence = Scale],
     [Tesla EXCEPT !.sentiment = Scale + 1, !.presence = -1],
     [Tesla EXCEPT !.links = <<[url |-> <<"x.com">>, title |-> <<>>]>>]}

\* the batches the create_plot tool is called with
BatchInputs ==
    {<<>>} \cup {<<r>> : r \in RawInputs}
    \cup {<<a, b>> : a \in MixInputs, b \in MixInputs}

Sym(name, ticker) == name \o <<" ", "(">> \o ticker \o <<")">>

\* raw records with pairwise different symbols, for the renderer
RenderRaw ==
    <<Tesla,
      [symbol |-> Sym(AppleInc, <<"A", "A", "P", "L">>), sentiment |-> -4200, presence |-> 0,
       summary |-> <<"d", "o", "w", "n">>, links |-> <<>>],
      [symbol |-> Sym(<<"B">>, <<"B">>), sentiment |-> 0, presence |-> 2500,
       summary |-> <<"<ul>", "<li>", "x", "</li>", "</ul>">>, links |-> <<>>],
      [symbol |-> Sym(<<"C">>, <<"C">>), sentiment |-> Scale, presence |-> Scale,
       summary |-> <<NoLinks>>,
       links |-> <<[url |-> HostUrl, title |-> <<"a">>],
                   [url |-> PostUrl, title |-> <<"b">>]>>],
      [symbol |-> Sym(<<"D", "\"">>, <<"D">>), sentiment |-> -Scale, presence |-> 2501,
       summary |-> <<>>,
       links |-> <<[url |-> PostUrl, title |-> <<"</a>", "</li>", "<li>", "<a>", "z">>]>>],
      [symbol |-> Sym(<<"E">>, <<"E">>), sentiment |-> -1, presence |-> 1250,
       summary |-> <<"e">>, links |-> <<[url |-> PostUrl, title |-> <<"c">>]>>],
      [symbol |-> Sym(<<"F">>, <<"F">>), sentiment |-> 1250, presence |-> Scale - 1,
       summary |-> <<"f">>, links |-> <<>>]>>

\* the validated records the renderer is given
RenderPool ==
    LET ok == SelectSeq(RenderRaw, LAMBDA r : RecordErrors(r) = {})
    IN  [k \in 1..Len(ok) |-> Parsed(ok[k])]

\* the record lists the renderer is called with: every list of at most two
\* records of the pool, and the lists that run through the pool in a cycle
DataInputs ==
    {<<>>} \cup {<<RenderPool[a]>> : a \in 1..Len(RenderPool)}
    \cup {<<RenderPool[a], RenderPool[b]>> :
            a \in 1..Len(RenderPool), b \in 1..Len(RenderPool)}
    \cup {[k \in 1..n |-> RenderPool[((k + off) % Len(RenderPool)) + 1]] :
            n \in 3..MaxRecords, off \in 0..(Len(RenderPool) - 1)}

\* --------------------------------------------------------- state machine

VARIABLES
    pc,          \* where the call in progress stands
    caller,      \* who made it: "tool", "service", "test" ("none": no call yet)
    batch,       \* the raw records the create_plot tool was called with
    data,        \* the validated records of the call
    datasets,    \* create_plot's local datasets
    boxes_html,  \* create_plot's local stock_boxes_html
    html,        \* create_plot's local html
    written,     \* the contents of the files this call has left in /tmp
    opened,      \* the files this call has opened in the browser, by index
    display,     \* how the display step of this call went
    result       \* what the call gave its caller

vars ==
    <<pc, caller, batch, data, datasets, boxes_html, html, written, opened,
      display, result>>

\* the names the class VisualizationService defines
VisualizationServiceAttrs ==
    {"__init__", "_generate_datasets", "_generate_stock_boxes_html",
     "_get_html_template", "create_plot"}

NoResult == [kind |-> "none", errors |-> {}, attr |-> ""]

Returned(kind) == [kind |-> kind, errors |-> {}, attr |-> ""]

\* the AttributeError of looking up the name attr
NoAttribute(attr) == [kind |-> "AttributeError", errors |-> {}, attr |-> attr]

RenderInit ==
    /\ pc = "idle"
    /\ caller = "none"
    /\ batch = <<>>
    /\ data = <<>>
    /\ datasets = <<>>
    /\ boxes_html = <<>>
    /\ html = <<>>
    /\ written = <<>>
    /\ opened = <<>>
    /\ display = "none"
    /\ result = NoResult

\* a new call starts with fresh locals
Fresh ==
    /\ datasets' = <<>>
    /\ boxes_html' = <<>>
    /\ html' = <<>>
    /\ written' = <<>>
    /\ opened' = <<>>
    /\ display' = "none"

ValidateBatch_lenient(b) == {}

\* the arguments of a tool call are validated against list[PlotDataPoint]:
\* the errors of all records, each with the index of its record
ValidateBatch(b) ==
    UNION {{<<k - 1, e>> : e \in RecordErrors(b[k])} : k \in 1..Len(b)}

\* the create_plot tool of the server, called with the batch b
ToolCreatePlot(b) ==
    /\ pc = "idle"
    /\ caller' = "tool"
    /\ batch' = b
    /\ Fresh
    /\ LET errors == ValidateBatch(b) IN
       IF errors # {}
       THEN /\ data' = <<>>
            /\ result' = [kind |-> "ValidationError", errors |-> errors, attr |-> ""]
            /\ pc' = "returned"
       ELSE /\ data' = [k \in 1..Len(b) |-> Parsed(b[k])]
            /\ IF "create" \notin VisualizationServiceAttrs
               THEN /\ result' = NoAttribute("create")
                    /\ pc' = "returned"
               ELSE /\ result' = NoResult
                    /\ pc' = "gen_datasets"

\* the calls of test_create_plot_html: VisualizationService.create(), then
\* create_plot_html(data=d) on what it returned
TestCreatePlotHtml(d) ==
    /\ pc = "idle"
    /\ \E attr \in {"create", "create_plot_html"} \ VisualizationServiceAttrs :
          /\ attr = "create_plot_html" => "create" \in VisualizationServiceAttrs
          /\ result' = NoAttribute(attr)
    /\ caller' = "test"
    /\ batch' = <<>>
    /\ data' = d
    /\ Fresh
    /\ pc' = "returned"

\* VisualizationService.create_plot(data=d), called on an instance
ServiceCreatePlot(d) ==
    /\ pc = "idle"
    /\ caller' = "service"
    /\ batch' = <<>>
    /\ data' = d
    /\ Fresh
    /\ result' = NoResult
    /\ pc' = "gen_datasets"

GenerateDatasets ==
    /\ pc = "gen_datasets"
    /\ LET built == _generate_datasets(data)
           errors == UNION {{<<k - 1, e>> : e \in DatasetErrors(data[k], built[k])} :
                              k \in 1..Len(data)}
       IN  IF errors = {}
           THEN /\ datasets' = built
                /\ pc' = "gen_boxes"
                /\ result' = result
           ELSE /\ datasets' = datasets
                /\ pc' = "returned"
                /\ result' = [kind |-> "ValidationError", errors |-> errors, attr |-> ""]
    /\ UNCHANGED <<caller, batch, data, boxes_html, html, written, opened, display>>

GenerateStockBoxes ==
    /\ pc = "gen_boxes"
    /\ boxes_html' = _generate_stock_boxes_html(data)
    /\ pc' = "gen_html"
    /\ UNCHANGED <<caller, batch, data, datasets, html, written, opened, display, result>>

GetHtmlTemplate ==
    /\ pc = "gen_html"
    /\ html' = _get_html_template(datasets, boxes_html)
    /\ pc' = "write"
    /\ UNCHANGED <<caller, batch, data, datasets, boxes_html, written, opened, display, result>>

\* the with block: the file is created (and kept: delete=False), the
\* document is written and the file closed.  Creating the file can fail,
\* and so can the write, after none or a part of the document is in it.
WriteTempFile ==
    /\ pc = "write"
    /\ \/ /\ written' = Append(written, html)
          /\ pc' = "open"
          /\ UNCHANGED <<display, result>>
       \/ /\ written' = written
          /\ display' = "failed"
          /\ result' = Returned("OSError")
          /\ pc' = "returned"
       \/ /\ \E n \in {0, Len(html) \div 2} :
                written' = Append(written, SubSeq(html, 1, n))
          /\ display' = "failed"
          /\ result' = Returned("OSError")
          /\ pc' = "returned"
    /\ UNCHANGED <<caller, batch, data, datasets, boxes_html, html, opened>>

\* webbrowser.open_new(url), then the return: the browser opens the file,
\* or there is no browser (open_new returns False, which nobody reads), or
\* open_new raises.  The method returns None, which the tool awaits.
OpenBrowser ==
    /\ pc = "open"
    /\ \/ /\ opened' = Append(opened, Len(written))
          /\ display' = "shown"
          /\ result' = IF caller = "tool" THEN Returned("TypeError") ELSE Returned("ok")
       \/ /\ opened' = opened
          /\ display' = "failed"
          /\ result' = IF caller = "tool" THEN Returned("TypeError") ELSE Returned("ok")
       \/ /\ opened' = opened
          /\ display' = "failed"
          /\ result' = Returned("webbrowser.Error")
    /\ pc' = "returned"
    /\ UNCHANGED <<caller, batch, data, datasets, boxes_html, html, written>>

\* the caller has the result; the locals of the call are gone and the next
\* call can be made
NextCall ==
    /\ pc = "returned"
    /\ pc' = "idle"
    /\ caller' = "none"
    /\ batch' = <<>>
    /\ data' = <<>>
    /\ Fresh
    /\ result' = NoResult


\* -------------------------------------------------------- reddit service

MaxPosts == 3

MaxLimit == 4

MaxClients == 2

\* Python's None, where a str can stand as well
None == "<None>"

Falsy_none(v) == v = None

\* not v, for a str or None
Falsy(v) == v \in {None, ""}

\* what os.environ.get gives for REDDIT_CLIENT_ID and REDDIT_CLIENT_SECRET
CredentialInputs == {None, "", "abc"}

\* the posts a listing can hold; the second has no author (a deleted account)
PostPool ==
    {[title |-> "Post 1", selftext |-> "text 1", url |-> "https://redd.it/1",
      author |-> "alice", created_utc |-> 1700000001],
     [title |-> "Post 2", selftext |-> "", url |-> "https://redd.it/2",
      author |-> None, created_utc |-> 1700000002],
     [title |-> "Post 3", selftext |-> "text 3", url |-> "https://redd.it/3",
      author |-> "bob", created_utc |-> 1700000003]}

RECURSIVE SeqsUpTo(_, _)
\* the sequences of at most n elements of S
SeqsUpTo(S, n) ==
    IF n = 0 THEN {<<>>}
    ELSE LET shorter == SeqsUpTo(S, n - 1)
         IN  shorter \cup {Append(q, x) : q \in shorter, x \in S}

\* the hot posts of a subreddit, as the forum has them
HotInputs == SeqsUpTo(PostPool, MaxPosts)

\* the limits fetch_subreddit_posts is called with; 10 is its default
LimitInputs == (0..MaxLimit) \cup {10}

SubredditInputs == {"Stocks", "wallstreetbets"}

\* the exceptions the forum client raises
ErrorInputs ==
    {[type |-> "Exception", msg |-> <<"API Error">>],
     [type |-> "RequestException", msg |-> <<"timed out">>]}

NoFailure == [at |-> "none", after |-> 0, type |-> "", msg |-> <<>>]

\* the call at, after the listing has delivered `after` posts, raises e
Failure(at, after, e) == [at |-> at, after |-> after, type |-> e.type, msg |-> e.msg]

\* subreddit.hot(limit=limit): the listing delivers the hot posts in their
\* order and stops after limit of them
Listing(hot, limit) == SubSeq(hot, 1, Min(limit, Len(hot)))

\* the ways a fetch_subreddit_posts call can go for the hot posts and limit
PostsFailures(hot, limit) ==
    {NoFailure}
    \cup {Failure("subreddit", 0, e) : e \in ErrorInputs}
    \cup {Failure("listing", j, e) :
            j \in 0..Len(Listing(hot, limit)), e \in ErrorInputs}

Caught_narrow(type) == type = "RequestException"

\* except Exception: every exception of the client is one
Caught(type) == type \in {"Exception", "RequestException", "IndexError", "AttributeError"}

Author_str(author) == author

\* str(post.author) if post.author else "Unknown"
Author(author) == IF author # None THEN author ELSE "Unknown"

\* post_data of one post
PostData(post) ==
    [title |-> post.title, content |-> post.selftext, url |-> post.url,
     author |-> Author(post.author), created_utc |-> post.created_utc]

RECURSIVE PostsLoop(_, _, _)
\* async for post in hot_posts: posts.append(post_data)
PostsLoop(delivered, k, posts) ==
    IF k > Len(delivered) THEN posts
    ELSE PostsLoop(delivered, k + 1, Append(posts, PostData(delivered[k])))

MaxComments == 4

MaxCommentLimit == 5

\* the comments a forest of at most n comments can hold, each named by its
\* path: <<2, 1>> is the first reply to the second top-level comment
RECURSIVE ForestShapes(_)
ForestShapes(n) ==
    IF n = 0 THEN {{}}
    ELSE LET smaller == ForestShapes(n - 1)
             Children(shape, path) ==
                 {c \in shape : Len(c) = Len(path) + 1
                                /\ SubSeq(c, 1, Len(path)) = path}
             Grown(shape) ==
                 {shape \cup {Append(path, Cardinality(Children(shape, path)) + 1)} :
                    path \in shape \cup {<<>>}}
         IN  smaller \cup UNION {Grown(shape) : shape \in smaller}

\* the comment at path of the forest of that shape, with its replies
RECURSIVE CommentAt(_, _)
CommentAt(shape, path) ==
    LET n == Cardinality({c \in shape : Len(c) = Len(path) + 1
                                        /\ SubSeq(c, 1, Len(path)) = path})
    IN  [id |-> path,
         author |-> IF Len(path) = 2 THEN None ELSE "carol",
         body |-> "text",
         score |-> Len(path),
         created_utc |-> 1700000010 + Len(path),
         parent_id |-> SubSeq(path, 1, Len(path) - 1),
         replies |-> [k \in 1..n |-> CommentAt(shape, Append(path, k))]]

\* submission.comments once replace_more(limit=0) has run
ForestInputs == {CommentAt(shape, <<>>).replies : shape \in ForestShapes(MaxComments)}

\* the comment limits fetch_single_post is called with; 50 is its default
CommentLimitInputs == (-1..MaxCommentLimit) \cup {50}

RedditUrl == <<"http", "s:", "/", "/", "www.reddit.com", "/", "r", "/", "stocks">>

\* the post_id arguments: raw ids, and links
PostIdInputs ==
    {<<"1abcd2">>,
     <<"comments">>,
     <<>>,
     <<"http", "1abcd2">>,
     RedditUrl \o <<"/", "comments", "/", "1abcd2", "/", "some_title", "/">>,
     RedditUrl \o <<"/", "comments", "/", "1abcd2">>,
     RedditUrl \o <<"/", "comments", "/", "1abcd2", "/", "comments", "/", "9zz">>,
     RedditUrl \o <<"/", "comments", "/">>,
     RedditUrl \o <<"/", "comments">>,
     RedditUrl \o <<"/", "mycomments", "/", "1abcd2">>,
     RedditUrl \o <<"/">>}

\* post_id.startswith("http")
StartsWithHttp(post_id) == post_id # <<>> /\ post_id[1] = "http"

RECURSIVE SplitLoop(_, _, _, _)
\* post_id.split("/")
SplitLoop(text, k, part, parts) ==
    IF k > Len(text) THEN Append(parts, part)
    ELSE IF text[k] = "/" THEN SplitLoop(text, k + 1, <<>>, Append(parts, part))
    ELSE SplitLoop(text, k + 1, Append(part, text[k]), parts)

Split(text) == SplitLoop(text, 1, <<>>, <<>>)

\* parts.index("comments"), for parts that hold it
IndexOf(parts, part) == CHOOSE k \in 1..Len(parts) :
    parts[k] = part /\ \A j \in 1..(k - 1) : parts[j] # part

\* lines 110-115: the submission id of a post_id, or the error return, or
\* the IndexError of parts[...] past the last part
ExtractId(post_id) ==
    LET parts == Split(post_id)
    IN  IF ~StartsWithHttp(post_id) THEN [kind |-> "id", id |-> post_id]
        ELSE IF \E k \in 1..Len(parts) : parts[k] = <<"comments">>
        THEN IF IndexOf(parts, <<"comments">>) + 1 <= Len(parts)
             THEN [kind |-> "id", id |-> parts[IndexOf(parts, <<"comments">>) + 1]]
             ELSE [kind |-> "IndexError", id |-> <<>>]
        ELSE [kind |-> "invalid", id |-> <<>>]

IndexErrorMsg == <<"list index out of range">>

InvalidUrlError == <<"Invalid Reddit URL format">>

RECURSIVE FlattenFrom(_, _)
\* for comment in forest: yield comment; if comment.replies: yield from ...
FlattenFrom(forest, k) ==
    IF k > Len(forest) THEN <<>>
    ELSE <<forest[k]>>
         \o (IF forest[k].replies # <<>> THEN FlattenFrom(forest[k].replies, 1) ELSE <<>>)
         \o FlattenFrom(forest, k + 1)

_flatten_comments(forest) == FlattenFrom(forest, 1)

\* seq[:n]
SliceTo(seq, n) ==
    IF n >= 0 THEN SubSeq(seq, 1, Min(n, Len(seq)))
    ELSE SubSeq(seq, 1, Max(Len(seq) + n, 0))

RECURSIVE FlattenCapped(_, _, _)
FlattenCapped(forest, k, cap) ==
    IF k > Len(forest) \/ k > cap THEN <<>>
    ELSE <<forest[k]>>
         \o FlattenCapped(forest[k].replies, 1, cap)
         \o FlattenCapped(forest, k + 1, cap)

RawComments_perbranch(forest, comment_limit) == FlattenCapped(forest, 1, comment_limit)

\* list(_flatten_comments(submission.comments))[:comment_limit]
RawComments(forest, comment_limit) == SliceTo(_flatten_comments(forest), comment_limit)

CommentData(comment) ==
    [id |-> comment.id, author |-> Author(comment.author), body |-> comment.body,
     score |-> comment.score, created_utc |-> comment.created_utc,
     parent_id |-> comment.parent_id]

\* the submission of the forum, but for its comments
Submission ==
    [title |-> "Post 1", selftext |-> "text 1", url |-> "https://redd.it/1",
     author |-> None, created_utc |-> 1700000001, score |-> 42,
     upvote_ratio |-> 97, num_comments |-> 7, subreddit |-> "stocks"]

\* post_data of the submission with the comment forest
SinglePostData(forest, comment_limit) ==
    LET raw_comments == RawComments(forest, comment_limit)
    IN  [title |-> Submission.title, content |-> Submission.selftext,
         url |-> Submission.url, author |-> Author(Submission.author),
         created_utc |-> Submission.created_utc, score |-> Submission.score,
         upvote_ratio |-> Submission.upvote_ratio,
         num_comments |-> Submission.num_comments,
         subreddit |-> Submission.subreddit,
         comments |-> [k \in 1..Len(raw_comments) |-> CommentData(raw_comments[k])]]

\* the ways a fetch_single_post call can go
PostFailures ==
    {NoFailure}
    \cup {Failure(at, 0, e) : at \in {"submission", "load", "replace_more"},
                              e \in ErrorInputs}

\* the calls made on the client when the call at `at` raises
RequestsUntil(id, at) ==
    LET all == <<<<"submission", id>>, <<"load", id>>, <<"replace_more", 0>>>>
    IN  CASE at = "submission" -> SubSeq(all, 1, 1)
          [] at = "load" -> SubSeq(all, 1, 2)
          [] OTHER -> all

NoClientError == <<"Failed to create Reddit client", ". Check your credentials.">>

VARIABLES
    rpc,           \* where the reddit call in progress stands
    rcaller,       \* who makes it: a tool of the server, or a direct caller
    service,       \* the RedditService instance of the call
    open_clients,  \* the forum clients created and not closed, by who created them
    rargs,         \* the arguments of the fetch
    forum,         \* what the forum holds and how the client's calls go
    requests,      \* the calls made on the forum client, in order
    rresult,       \* the dict the fetch returned
    rraised        \* the exception type the fetch raised ("none": none)

rvars ==
    <<rpc, rcaller, service, open_clients, rargs, forum, requests, rresult, rraised>>

\* the two tools of the server that use the service, and any other caller
RedditCallers == {"fetch_stocks_subreddit_posts", "fetch_single_reddit_post", "direct"}

\* how many forum clients are open
OpenClients ==
    open_clients["fetch_stocks_subreddit_posts"]
    + open_clients["fetch_single_reddit_post"] + open_clients["direct"]

NoService == [client_id |-> None, client_secret |-> None, client |-> None]

NoArgs ==
    [method |-> "", subreddit_name |-> "", limit |-> 0, post_id |-> <<>>,
     comment_limit |-> 0]

NoForum == [hot |-> <<>>, comments |-> <<>>, failure |-> NoFailure]

NoDict == [none |-> TRUE]

RedditInit ==
    /\ rpc = "idle"
    /\ rcaller = "none"
    /\ service = NoService
    /\ open_clients = [c \in RedditCallers |-> 0]
    /\ rargs = NoArgs
    /\ forum = NoForum
    /\ requests = <<>>
    /\ rresult = NoDict
    /\ rraised = "none"

\* RedditService.create(), for the caller c, with the two credentials as
\* the environment gives them; asyncpraw.Reddit(...) returns a client or
\* raises
RedditCreate(c, client_id, client_secret) ==
    /\ rpc = "idle"
    /\ OpenClients < MaxClients
    /\ rcaller' = c
    /\ \E made \in BOOLEAN :
          /\ (Falsy(client_id) \/ Falsy(client_secret)) => ~made
          /\ service' = [client_id |-> client_id, client_secret |-> client_secret,
                         client |-> IF made THEN "Reddit" ELSE None]
          /\ open_clients' = IF made THEN [open_clients EXCEPT ![c] = @ + 1]
                              ELSE open_clients
    /\ rpc' = "created"
    /\ UNCHANGED <<rargs, forum, requests, rresult, rraised>>

\* fetch_subreddit_posts(subreddit_name=.., limit=..) on the service, while
\* the forum holds the posts hot and the client's calls go as failure says;
\* the tool calls it with the defaults
FetchSubredditPosts(subreddit_name, limit, hot, failure) ==
    /\ rpc = "created"
    /\ rcaller \in {"fetch_stocks_subreddit_posts", "direct"}
    /\ rcaller = "fetch_stocks_subreddit_posts" =>
          subreddit_name = "Stocks" /\ limit = 10
    /\ service.client = None => hot = <<>> /\ failure = NoFailure
    /\ rargs' = [NoArgs EXCEPT !.method = "fetch_subreddit_posts",
                               !.subreddit_name = subreddit_name, !.limit = limit]
    /\ forum' = [NoForum EXCEPT !.hot = hot, !.failure = failure]
    /\ IF service.client = None
       THEN /\ requests' = <<>>
            /\ rresult' = [error |-> NoClientError]
            /\ rraised' = "none"
       ELSE IF failure.at = "subreddit"
       THEN /\ requests' = <<<<"subreddit", subreddit_name>>>>
            /\ IF Caught(failure.type)
               THEN /\ rresult' = [error |-> <<"Failed to fetch posts: ">> \o failure.msg]
                    /\ rraised' = "none"
               ELSE /\ rresult' = NoDict
                    /\ rraised' = failure.type
       ELSE IF failure.at = "listing"
       THEN /\ requests' = <<<<"subreddit", subreddit_name>>, <<"hot", limit>>>>
            /\ IF Caught(failure.type)
               THEN /\ rresult' = [error |-> <<"Failed to fetch posts: ">> \o failure.msg]
                    /\ rraised' = "none"
               ELSE /\ rresult' = NoDict
                    /\ rraised' = failure.type
       ELSE /\ requests' = <<<<"subreddit", subreddit_name>>, <<"hot", limit>>>>
            /\ rresult' = [posts |-> PostsLoop(Listing(hot, limit), 1, <<>>)]
            /\ rraised' = "none"
    /\ rpc' = "returned"
    /\ UNCHANGED <<rcaller, service, open_clients>>

\* fetch_single_post(post_id=.., comment_limit=..) on the service, while
\* the submission has the comment forest and the client's calls go as
\* failure says; the tool calls it with the default comment_limit
FetchSinglePost(post_id, comment_limit, forest, failure) ==
    /\ rpc = "created"
    /\ rcaller \in {"fetch_single_reddit_post", "direct"}
    /\ rcaller = "fetch_single_reddit_post" => comment_limit = 50
    /\ LET extracted == ExtractId(post_id)
           reached == service.client # None /\ extracted.kind = "id"
       IN  /\ ~reached => forest = <<>> /\ failure = NoFailure
           /\ reached /\ failure # NoFailure => forest = <<>>
           /\ rargs' = [NoArgs EXCEPT !.method = "fetch_single_post",
                                      !.post_id = post_id,
                                      !.comment_limit = comment_limit]
           /\ forum' = [NoForum EXCEPT !.comments = forest, !.failure = failure]
           /\ IF service.client = None
              THEN /\ requests' = <<>>
                   /\ rresult' = [error |-> NoClientError]
                   /\ rraised' = "none"
              ELSE IF extracted.kind = "invalid"
              THEN /\ requests' = <<>>
                   /\ rresult' = [error |-> InvalidUrlError]
                   /\ rraised' = "none"
              ELSE IF extracted.kind = "IndexError"
              THEN /\ requests' = <<>>
                   /\ IF Caught("IndexError")
                      THEN /\ rresult' = [error |-> <<"Failed to fetch post: ">> \o IndexErrorMsg]
                           /\ rraised' = "none"
                      ELSE /\ rresult' = NoDict
                           /\ rraised' = "IndexError"
              ELSE IF failure # NoFailure
              THEN /\ requests' = RequestsUntil(extracted.id, failure.at)
                   /\ IF Caught(failure.type)
                      THEN /\ rresult' = [error |-> <<"Failed to fetch post: ">> \o failure.msg]
                           /\ rraised' = "none"
                      ELSE /\ rresult' = NoDict
                           /\ rraised' = failure.type
              ELSE /\ requests' = RequestsUntil(extracted.id, "none")
                   /\ rresult' = [post |-> SinglePostData(forest, comment_limit)]
                   /\ rraised' = "none"
    /\ rpc' = "returned"
    /\ UNCHANGED <<rcaller, service, open_clients>>

\* close() on the service, which only a direct caller calls
RedditClose ==
    /\ rpc = "returned"
    /\ rcaller = "direct"
    /\ service.client # None
    /\ service' = [service EXCEPT !.client = None]
    /\ open_clients' = [open_clients EXCEPT ![rcaller] = @ - 1]
    /\ UNCHANGED <<rpc, rcaller, rargs, forum, requests, rresult, rraised>>

\* the caller has its result and drops the service
RedditNextCall ==
    /\ rpc = "returned"
    /\ rpc' = "idle"
    /\ rcaller' = "none"
    /\ service' = NoService
    /\ rargs' = NoArgs
    /\ forum' = NoForum
    /\ requests' = <<>>
    /\ rresult' = NoDict
    /\ rraised' = "none"
    /\ UNCHANGED open_clients


\* ------------------------------------------------- two calls of create_plot

\* the two calls, each a thread in create_plot of the global service
Calls == {1, 2}

\* the names mkstemp can give a file in /tmp
TempNames == {"/tmp/tmpa.html", "/tmp/tmpb.html", "/tmp/tmpc.html"}

\* the record lists of the two calls
ConcInputs ==
    {<<>>, <<RenderPool[1]>>, <<RenderPool[2], RenderPool[1]>>,
     [k \in 1..MaxRecords |-> RenderPool[(k % Len(RenderPool)) + 1]]}

VARIABLES
    calls,     \* the locals of each call: pc, data, datasets, ..., html_path
    palette,   \* visualization_service.colors
    files,     \* the files of /tmp
    shown,     \* the paths opened in the browser, in order
    started    \* the calls in the order they were made

cvars == <<calls, palette, files, shown, started>>

NoCall ==
    [pc |-> "idle", data |-> <<>>, datasets |-> <<>>, stock_boxes_html |-> <<>>,
     html |-> <<>>, html_path |-> "", raised |-> "none"]

NoFile == [exists |-> FALSE, content |-> <<>>]

ConcInit ==
    /\ calls = [i \in Calls |-> NoCall]
    /\ palette = colors
    /\ files = [n \in TempNames |-> NoFile]
    /\ shown = <<>>
    /\ started = <<>>

FreeNames_fixed(fs) == {"/tmp/tmpa.html"}

\* NamedTemporaryFile(delete=False, suffix=".html", dir="/tmp") opens a file
\* under a name no file of the directory has
FreeNames(fs) == {n \in TempNames : ~fs[n].exists}

\* visualization_service.create_plot(data=d), as call i
ConcCreatePlot(i, d) ==
    /\ calls[i].pc = "idle"
    /\ calls' = [calls EXCEPT ![i] = [NoCall EXCEPT !.pc = "gen_datasets", !.data = d]]
    /\ started' = Append(started, i)
    /\ UNCHANGED <<palette, files, shown>>

\* self._generate_datasets(data=data) of call i, reading self.colors
ConcGenerateDatasets(i) ==
    /\ calls[i].pc = "gen_datasets"
    /\ LET built == DatasetsLoop(palette, calls[i].data, 0, <<>>)
           errors == UNION {{<<k - 1, e>> : e \in DatasetErrors(calls[i].data[k], built[k])} :
                              k \in 1..Len(calls[i].data)}
       IN  calls' = IF errors = {}
                    THEN [calls EXCEPT ![i].datasets = built, ![i].pc = "gen_boxes"]
                    ELSE [calls EXCEPT ![i].raised = "ValidationError",
                                       ![i].pc = "returned"]
    /\ UNCHANGED <<palette, files, shown, started>>

ConcGenerateStockBoxes(i) ==
    /\ calls[i].pc = "gen_boxes"
    /\ calls' = [calls EXCEPT
                   ![i].stock_boxes_html = _generate_stock_boxes_html(calls[i].data),
                   ![i].pc = "gen_html"]
    /\ UNCHANGED <<palette, files, shown, started>>

ConcGetHtmlTemplate(i) ==
    /\ calls[i].pc = "gen_html"
    /\ calls' = [calls EXCEPT
                   ![i].html = _get_html_template(calls[i].datasets,
                                                  calls[i].stock_boxes_html),
                   ![i].pc = "create"]
    /\ UNCHANGED <<palette, files, shown, started>>

\* entering the with block: the file of call i is created
ConcCreateTempFile(i) ==
    /\ calls[i].pc = "create"
    /\ \E n \in FreeNames(files) :
          /\ files' = [files EXCEPT ![n] = [exists |-> TRUE, content |-> <<>>]]
          /\ calls' = [calls EXCEPT ![i].html_path = n, ![i].pc = "write"]
    /\ UNCHANGED <<palette, shown, started>>

\* tmp.write(html.encode("utf-8")), and the file is closed
ConcWriteTempFile(i) ==
    /\ calls[i].pc = "write"
    /\ files' = [files EXCEPT ![calls[i].html_path].content = calls[i].html]
    /\ calls' = [calls EXCEPT ![i].pc = "open"]
    /\ UNCHANGED <<palette, shown, started>>

\* webbrowser.open_new(url), and the call returns
ConcOpenBrowser(i) ==
    /\ calls[i].pc = "open"
    /\ shown' = Append(shown, calls[i].html_path)
    /\ calls' = [calls EXCEPT ![i].pc = "returned"]
    /\ UNCHANGED <<palette, files, started>>


\* --------------------------------------------------------- specifications

allvars == <<vars, rvars, cvars>>

Init == RenderInit /\ RedditInit /\ ConcInit

\* the renderer's calls, one at a time
Next ==
    \/ (\E b \in BatchInputs : ToolCreatePlot(b)) /\ UNCHANGED <<rvars, cvars>>
    \/ (\E d \in DataInputs : TestCreatePlotHtml(d)) /\ UNCHANGED <<rvars, cvars>>
    \/ (\E d \in DataInputs : ServiceCreatePlot(d)) /\ UNCHANGED <<rvars, cvars>>
    \/ GenerateDatasets /\ UNCHANGED <<rvars, cvars>>
    \/ GenerateStockBoxes /\ UNCHANGED <<rvars, cvars>>
    \/ GetHtmlTemplate /\ UNCHANGED <<rvars, cvars>>
    \/ WriteTempFile /\ UNCHANGED <<rvars, cvars>>
    \/ OpenBrowser /\ UNCHANGED <<rvars, cvars>>
    \/ NextCall /\ UNCHANGED <<rvars, cvars>>

Spec == Init /\ [][Next]_allvars

\* the reddit service's calls: a service is created between calls, and
\* fetched from once
RedditNext ==
    \/ /\ rpc = "idle"
       /\ \E c \in RedditCallers, client_id \in CredentialInputs,
             client_secret \in CredentialInputs :
             RedditCreate(c, client_id, client_secret)
       /\ UNCHANGED <<vars, cvars>>
    \/ /\ rpc = "created"
       /\ \E subreddit_name \in SubredditInputs, limit \in LimitInputs,
             hot \in HotInputs :
             \E failure \in PostsFailures(hot, limit) :
                FetchSubredditPosts(subreddit_name, limit, hot, failure)
       /\ UNCHANGED <<vars, cvars>>
    \/ /\ rpc = "created"
       /\ \E post_id \in PostIdInputs, comment_limit \in CommentLimitInputs,
             forest \in ForestInputs, failure \in PostFailures :
             FetchSinglePost(post_id, comment_limit, forest, failure)
       /\ UNCHANGED <<vars, cvars>>
    \/ RedditClose /\ UNCHANGED <<vars, cvars>>
    \/ RedditNextCall /\ UNCHANGED <<vars, cvars>>

SpecReddit == Init /\ [][RedditNext]_allvars

\* two calls of create_plot, their steps in any order
ConcNext ==
    \/ (\E i \in Calls, d \in ConcInputs : ConcCreatePlot(i, d)) /\ UNCHANGED <<vars, rvars>>
    \/ (\E i \in Calls : ConcGenerateDatasets(i)) /\ UNCHANGED <<vars, rvars>>
    \/ (\E i \in Calls : ConcGenerateStockBoxes(i)) /\ UNCHANGED <<vars, rvars>>
    \/ (\E i \in Calls : ConcGetHtmlTemplate(i)) /\ UNCHANGED <<vars, rvars>>
    \/ (\E i \in Calls : ConcCreateTempFile(i)) /\ UNCHANGED <<vars, rvars>>
    \/ (\E i \in Calls : ConcWriteTempFile(i)) /\ UNCHANGED <<vars, rvars>>
    \/ (\E i \in Calls : ConcOpenBrowser(i)) /\ UNCHANGED <<vars, rvars>>

SpecConc == Init /\ [][ConcNext]_allvars

\* ---------------------------------------------------------------- claims

\* the tool call has returned: validation has acted on every record of batch
ToolReturned == caller = "tool" /\ pc = "returned"

\* record k (from 1) of the batch was rejected for the field at path
Rejected(k, path) == <<k - 1, path>> \in result.errors

\* s is name, " (", ticker, ")" with a non-empty name and a ticker of 1 to 5
\* letters A-Z
HasSymbolForm(s) ==
    \E n \in 1..5 :
        /\ Len(s) >= n + 4
        /\ s[Len(s)] = ")"
        /\ \A j \in (Len(s) - n)..(Len(s) - 1) : s[j] \in UpperLetters
        /\ s[Len(s) - n - 1] = "("
        /\ s[Len(s) - n - 2] = " "

\* the name of a symbol of that form holds no line break
NameOnOneLine(s) ==
    \A n \in 1..5 :
        Len(s) >= n + 4 => \A j \in 1..(Len(s) - n - 3) : s[j] # LineBreak

\* C1 as stated: validation accepts a symbol exactly when it has the form
\* '<non-empty name> (<TICKER>)', whatever the name holds, and an accepted
\* symbol is passed on as given.
C1_SymbolAcceptedIffForm ==
    ToolReturned =>
        /\ \A k \in 1..Len(batch) :
              ~Rejected(k, <<"symbol">>) <=> HasSymbolForm(batch[k].symbol)
        /\ \A k \in 1..Len(data) : data[k].symbol = batch[k].symbol

\* C1, amended: validation accepts a symbol exactly when it has the form
\* '<non-empty name> (<TICKER>)' and the name holds no line break; the four
\* examples of the claim come out as it says; an accepted symbol is passed
\* on as given, never normalized.
C1_SymbolAcceptedIffFormOnOneLine ==
    ToolReturned =>
        /\ \A k \in 1..Len(batch) :
              LET s == batch[k].symbol IN
              /\ ~Rejected(k, <<"symbol">>)
                    <=> (HasSymbolForm(s) /\ NameOnOneLine(s))
              /\ s = Sym(AppleInc, <<"A", "A", "P", "L">>) => ~Rejected(k, <<"symbol">>)
              /\ s = Sym(AppleInc, <<"a", "a", "p", "l">>) => Rejected(k, <<"symbol">>)
              /\ s = Sym(AppleInc, <<"T", "O", "O", "L", "O", "N", "G">>)
                    => Rejected(k, <<"symbol">>)
              /\ s = <<"A", "A", "P", "L">> => Rejected(k, <<"symbol">>)
        /\ \A k \in 1..Len(data) : data[k].symbol = batch[k].symbol

\* a batch whose first symbol, 'Apple Inc. (AAPL)', was accepted and whose
\* second, 'Apple Inc. (aapl)', was rejected
C1_Witness ==
    /\ ToolReturned
    /\ Len(batch) = 2
    /\ batch[1].symbol = Sym(AppleInc, <<"A", "A", "P", "L">>)
    /\ batch[2].symbol = Sym(AppleInc, <<"a", "a", "p", "l">>)
    /\ ~Rejected(1, <<"symbol">>)
    /\ Rejected(2, <<"symbol">>)

\* C2: validation accepts sentiment exactly when -1.0 <= sentiment <= 1.0
\* and presence exactly when 0.0 <= presence <= 1.0, the ends included.
C2_RangesClosed ==
    ToolReturned =>
        \A k \in 1..Len(batch) :
            LET sentiment == batch[k].sentiment
                presence == batch[k].presence
            IN  /\ ~Rejected(k, <<"sentiment">>)
                      <=> (~(sentiment < -Scale) /\ ~(sentiment > Scale))
                /\ ~Rejected(k, <<"presence">>)
                      <=> (~(presence < 0) /\ ~(presence > Scale))
                /\ sentiment \in {-Scale, Scale} => ~Rejected(k, <<"sentiment">>)
                /\ presence \in {0, Scale} => ~Rejected(k, <<"presence">>)
                /\ sentiment = Scale + 1 => Rejected(k, <<"sentiment">>)
                /\ presence = -1 => Rejected(k, <<"presence">>)

\* a batch whose first record sits on the ends of both intervals and was
\* accepted, and whose second is just outside both and was rejected for both
C2_Witness ==
    /\ ToolReturned
    /\ Len(batch) = 2
    /\ batch[1].sentiment = -Scale /\ batch[1].presence = Scale
    /\ batch[2].sentiment = Scale + 1 /\ batch[2].presence = -1
    /\ ~Rejected(1, <<"sentiment">>) /\ ~Rejected(1, <<"presence">>)
    /\ Rejected(2, <<"sentiment">>) /\ Rejected(2, <<"presence">>)

\* record k of the batch fails validation
Invalid(k) == RecordErrors(batch[k]) # {}

\* C3: a tool call whose batch holds a record that fails validation ends in
\* a validation error that names every offending field, and at no point of
\* the call is a dataset built, a document assembled or written, or a
\* browser opened.
C3_RejectBeforeRender ==
    (caller = "tool" /\ \E k \in 1..Len(batch) : Invalid(k)) =>
        /\ pc = "returned"
        /\ result.kind = "ValidationError"
        /\ \A k \in 1..Len(batch) :
              \A e \in RecordErrors(batch[k]) : Rejected(k, e)
        /\ datasets = <<>> /\ boxes_html = <<>> /\ html = <<>>
        /\ written = <<>> /\ opened = <<>> /\ display = "none"

\* a returned tool call whose batch held a valid and an invalid record
C3_Witness ==
    /\ ToolReturned
    /\ \E j, k \in 1..Len(batch) : ~Invalid(j) /\ Invalid(k)
    /\ result.kind = "ValidationError"

\* C4: a tool call on valid records, whose display step does not fail, ends
\* without error, with the document built, written to one file and that
\* file opened.
C4_ToolCallCompletes ==
    (ToolReturned /\ (\A k \in 1..Len(batch) : ~Invalid(k)) /\ display # "failed") =>
        /\ result.kind = "ok"
        /\ html = _get_html_template(datasets, boxes_html)
        /\ written = <<html>>
        /\ opened = <<1>>

\* C5: create() followed by create_plot_html(data) returns the document: it
\* holds '<head>' and '<body>' and, for every record, the symbol, the
\* presence to 2 decimals, the summary and each link's title and URL, and
\* it embeds one dataset per record with the single point
\* (sentiment, presence).
C5_CreatePlotHtmlReturnsDocument ==
    (caller = "test" /\ pc = "returned") =>
        /\ result.kind = "ok"
        /\ Contains(html, <<"<head>">>) /\ Contains(html, <<"<body>">>)
        /\ \A k \in 1..Len(data) :
              /\ Contains(html, data[k].symbol)
              /\ Contains(html, Fmt2(data[k].presence))
              /\ Contains(html, data[k].summary)
              /\ \A j \in 1..Len(data[k].links) :
                    /\ Contains(html, data[k].links[j].title)
                    /\ Contains(html, data[k].links[j].url)
        /\ Len(datasets) = Len(data)
        /\ \A k \in 1..Len(datasets) :
              datasets[k].data = <<[x |-> data[k].sentiment, y |-> data[k].presence]>>

\* _generate_datasets has returned in the call in progress
DatasetsBuilt ==
    \/ pc \in {"gen_boxes", "gen_html", "write", "open"}
    \/ pc = "returned" /\ result.kind \notin {"ValidationError", "AttributeError"}

\* _generate_stock_boxes_html has returned in the call in progress
BoxesBuilt == DatasetsBuilt /\ pc # "gen_boxes"

\* _get_html_template has returned in the call in progress
HtmlBuilt == BoxesBuilt /\ pc # "gen_html"

\* presence * 20, not below 5 and not above 20
Clamped(presence) ==
    IF presence * 20 < 5 * Scale THEN 5 * Scale
    ELSE IF presence * 20 > 20 * Scale THEN 20 * Scale ELSE presence * 20

\* C6: every dataset has radius = presence x 20 clamped to [5, 20] and
\* hoverRadius = radius + 3; presence 0.0, 0.25 and 1.0 give 5, 5 and 20;
\* of two records, the one with the larger presence never has the smaller
\* radius.
C6_RadiusClamped ==
    DatasetsBuilt =>
        /\ \A k \in 1..Len(datasets) :
              LET presence == data[k].presence IN
              /\ datasets[k].pointRadius = Clamped(presence)
              /\ datasets[k].pointHoverRadius = datasets[k].pointRadius + 3 * Scale
              /\ presence = 0 => datasets[k].pointRadius = 5 * Scale
              /\ presence = Scale \div 4 => datasets[k].pointRadius = 5 * Scale
              /\ presence = Scale => datasets[k].pointRadius = 20 * Scale
        /\ \A j, k \in 1..Len(datasets) :
              data[j].presence <= data[k].presence
                  => datasets[j].pointRadius <= datasets[k].pointRadius

\* datasets built from records with presence 0.0, 0.25 and 1.0 among them
C6_Witness ==
    /\ DatasetsBuilt
    /\ \A p \in {0, Scale \div 4, Scale} :
          \E k \in 1..Len(datasets) : data[k].presence = p
    /\ \E k \in 1..Len(datasets) :
          datasets[k].pointRadius \notin {5 * Scale, 20 * Scale}

\* C7: the palette has 10 entries; the dataset at index i (from 0) has the
\* palette entry i mod 10 as its fill and as its stroke colour, so the
\* datasets at i and i + 10 have the same colours.
C7_ColoursCycle ==
    DatasetsBuilt =>
        /\ Len(colors) = 10
        /\ \A i \in 0..(Len(datasets) - 1) :
              /\ datasets[i + 1].backgroundColor = colors[(i % 10) + 1]
              /\ datasets[i + 1].borderColor = datasets[i + 1].backgroundColor
              /\ i + 10 < Len(datasets) =>
                    /\ datasets[i + 11].backgroundColor = datasets[i + 1].backgroundColor
                    /\ datasets[i + 11].borderColor = datasets[i + 1].borderColor

\* datasets built from more records than the palette has colours
C7_Witness == DatasetsBuilt /\ Len(datasets) > Len(colors)

\* the first place in boxes_html of the header of the stock box of record k
HeaderAt(k) ==
    LET header == <<"<div class=\"stock-header\">">> \o data[k].symbol \o <<"</div>">>
        at == {i \in 1..(Len(boxes_html) - Len(header) + 1) :
                  SubSeq(boxes_html, i, i + Len(header) - 1) = header}
    IN  IF at = {} THEN 0 ELSE CHOOSE i \in at : \A j \in at : i <= j

\* C8: the dataset list is as long as the input and its i-th dataset carries
\* the i-th record's symbol; the detail panels are the records' stock boxes,
\* one per record, put together in input order, so that the headers of
\* records with different symbols follow each other as the records do.
C8_OrderPreserved ==
    /\ DatasetsBuilt =>
          /\ Len(datasets) = Len(data)
          /\ \A k \in 1..Len(data) : datasets[k].label = data[k].symbol
    /\ BoxesBuilt =>
          /\ boxes_html = Flatten([k \in 1..Len(data) |-> StockBox(data[k])])
          /\ \A k \in 1..Len(data) : HeaderAt(k) > 0
          /\ \A j, k \in 1..Len(data) :
                (j < k /\ \A m \in 1..(k - 1) : data[m].symbol # data[k].symbol)
                    => HeaderAt(j) < HeaderAt(k)

\* the boxes of at least three records with pairwise different symbols
C8_Witness ==
    /\ BoxesBuilt
    /\ Len(data) >= 3
    /\ \A j, k \in 1..Len(data) : j # k => data[j].symbol # data[k].symbol

\* C9: rendering the empty list yields no dataset, no stock box and the
\* complete document with "[]" as its chart data, and the call ends in no
\* error of the renderer's making.
C9_EmptyInput ==
    (caller = "service" /\ data = <<>>) =>
        /\ DatasetsBuilt => datasets = <<>>
        /\ BoxesBuilt => boxes_html = <<>>
        /\ HtmlBuilt =>
              /\ html = TemplateHead \o TemplateMiddle \o <<"[", "]">> \o TemplateTail
              /\ Contains(html, <<TemplateMiddle[Len(TemplateMiddle)], "[", "]",
                                  TemplateTail[1]>>)
        /\ pc = "returned" =>
              \/ result.kind = "ok"
              \/ display = "failed" /\ result.kind \in {"OSError", "webbrowser.Error"}

\* the empty list rendered, written and shown, and the call returned
C9_Witness ==
    /\ caller = "service" /\ data = <<>>
    /\ pc = "returned" /\ result.kind = "ok" /\ display = "shown"
    /\ written = <<html>> /\ html # <<>>

\* the stock box of record k, as it stands in boxes_html
BoxOf(k) ==
    LET before == Len(Flatten([j \in 1..(k - 1) |-> StockBox(data[j])]))
    IN  SubSeq(boxes_html, before + 1, before + Len(StockBox(data[k])))

\* the places in the box p where the list item of the link l starts
ItemsAt(p, l) ==
    {i \in 1..(Len(p) - Len(LinkItem(l)) + 1) :
        SubSeq(p, i, i + Len(LinkItem(l)) - 1) = LinkItem(l)}

\* C10: the stock box of a record without links holds the placeholder and
\* no list markup; the box of a record with n >= 1 links holds one list
\* with exactly n items, in the order of the links, and no placeholder.
C10_LinksOrPlaceholder ==
    BoxesBuilt =>
        \A k \in 1..Len(data) :
            LET p == BoxOf(k)
                links == data[k].links
            IN  IF links = <<>>
                THEN /\ Contains(p, <<NoLinks>>)
                     /\ \A t \in {"<ul>", "</ul>", "<li>", "</li>"} : ~Contains(p, <<t>>)
                ELSE /\ Count(p, <<"<ul>">>) = 1 /\ Count(p, <<"</ul>">>) = 1
                     /\ Count(p, <<"<li>">>) = Len(links)
                     /\ \A j \in 1..Len(links) : ItemsAt(p, links[j]) # {}
                     /\ \A i, j \in 1..Len(links) :
                           i < j => \E a \in ItemsAt(p, links[i]) :
                                       \E b \in ItemsAt(p, links[j]) : a < b
                     /\ ~Contains(p, <<NoLinks>>)

\* the call of VisualizationService.create_plot has ended in an exception
RenderFailed ==
    /\ caller = "service"
    /\ pc = "returned"
    /\ result.kind \notin {"none", "ok"}

\* C11: when a step of create_plot fails, the exception of that step reaches
\* the caller, no step has run twice, and every file the call has left
\* holds the whole document, never a part of it.
C11_NoPartialDocument ==
    RenderFailed =>
        /\ result.kind \in {"OSError", "webbrowser.Error", "ValidationError"}
        /\ Len(written) <= 1 /\ Len(opened) <= 1
        /\ \A f \in 1..Len(written) : written[f] = html

\* C18: building the descriptors of validated records never fails, and every
\* descriptor meets its schema: the record's symbol as label, exactly one
\* point, both colours '#' and 6 hex digits, and radii that are numbers,
\* the int 5 of a presence <= 0.25 included.
C18_DescriptorsValid ==
    /\ caller = "service" => result.kind # "ValidationError"
    /\ DatasetsBuilt =>
          /\ Len(datasets) = Len(data)
          /\ \A k \in 1..Len(datasets) :
                LET d == datasets[k] IN
                /\ d.label = data[k].symbol
                /\ Len(d.data) = 1
                /\ \A c \in {d.backgroundColor, d.borderColor} :
                      /\ Len(c) = 7 /\ c[1] = "#"
                      /\ \A j \in 2..7 : c[j] \in HexDigits
                /\ DatasetErrors(data[k], d) = {}
                /\ data[k].presence <= Scale \div 4 =>
                      /\ d.pointRadius = 5 * Scale
                      /\ PointRadiusType(data[k].presence) = "int"

\* descriptors built from a record whose radius is the int 5 and from one
\* whose radius is a float
C18_Witness ==
    /\ DatasetsBuilt
    /\ \E j, k \in 1..Len(datasets) :
          /\ data[j].presence <= Scale \div 4
          /\ PointRadiusType(data[j].presence) = "int"
          /\ PointRadiusType(data[k].presence) = "float"

\* C19 as stated: with at most 10 records, no two datasets of one call have
\* the same fill colour.
C19_ColoursDistinctInPeriod ==
    (DatasetsBuilt /\ Len(datasets) <= 10) =>
        \A j, k \in 1..Len(datasets) :
            j # k => datasets[j].backgroundColor # datasets[k].backgroundColor

\* C19, amended: with at most 6 records, no two datasets of one call have
\* the same fill colour (the palette's entry 6 is its entry 0 again).
C19_ColoursDistinctUpToSix ==
    (DatasetsBuilt /\ Len(datasets) <= 6) =>
        \A j, k \in 1..Len(datasets) :
            j # k => datasets[j].backgroundColor # datasets[k].backgroundColor

\* the datasets of six records
C19_Witness == DatasetsBuilt /\ Len(datasets) = 6

\* a fetch of the reddit service has returned (or raised) to its caller
FetchReturned(method) == rpc = "returned" /\ rargs.method = method

\* C12: a fetch never raises to its caller, whatever the forum client does:
\* fetch_subreddit_posts returns a dict whose only key is 'posts' or 'error',
\* fetch_single_post one whose only key is 'post' or 'error', and an
\* exception with message m in fetch_subreddit_posts gives
\* {'error': 'Failed to fetch posts: m'}.
C12_FailuresAreValues ==
    rpc = "returned" =>
        /\ rraised = "none"
        /\ rargs.method = "fetch_subreddit_posts" =>
              /\ DOMAIN rresult \in {{"posts"}, {"error"}}
              /\ forum.failure # NoFailure =>
                    rresult = [error |-> <<"Failed to fetch posts: ">> \o forum.failure.msg]
        /\ rargs.method = "fetch_single_post" =>
              /\ DOMAIN rresult \in {{"post"}, {"error"}}
              /\ forum.failure # NoFailure => DOMAIN rresult = {"error"}

\* a listing that raised after it had delivered a post
C12_Witness ==
    /\ FetchReturned("fetch_subreddit_posts")
    /\ forum.failure.at = "listing"
    /\ forum.failure.after > 0
    /\ forum.failure.msg = <<"API Error">>
    /\ DOMAIN rresult = {"error"}

\* a credential of the service is missing: None or the empty string
CredentialMissing ==
    service.client_id \in {None, ""} \/ service.client_secret \in {None, ""}

\* C13: with REDDIT_CLIENT_ID or REDDIT_CLIENT_SECRET absent or empty,
\* create() gives a service without a client, and a fetch on it returns an
\* error that contains 'Failed to create Reddit client' and makes no call on
\* a forum client.
C13_MissingCredentials ==
    (rpc \in {"created", "returned"} /\ CredentialMissing) =>
        /\ service.client = None
        /\ rpc = "returned" =>
              /\ rraised = "none"
              /\ DOMAIN rresult = {"error"}
              /\ Contains(rresult.error, <<"Failed to create Reddit client">>)
              /\ requests = <<>>

\* a fetch_single_post on a service made with an empty client id
C13_Witness ==
    /\ FetchReturned("fetch_single_post")
    /\ service.client_id = ""
    /\ service.client_secret = "abc"
    /\ rargs.post_id # <<>>
    /\ DOMAIN rresult = {"error"}

\* C14: a fetch_subreddit_posts(subreddit_name, limit) that succeeds, with
\* limit >= 0, has asked the client once for the subreddit and once for the
\* listing with that limit; its 'posts' are the first posts of the listing
\* in order, at most limit of them, each with title, content, url and
\* created_utc of the post and its author, 'Unknown' for a post without one.
C14_PostsOnSuccess ==
    (FetchReturned("fetch_subreddit_posts") /\ DOMAIN rresult = {"posts"}) =>
        LET L == rresult.posts IN
        /\ requests = <<<<"subreddit", rargs.subreddit_name>>, <<"hot", rargs.limit>>>>
        /\ Len(L) <= rargs.limit
        /\ Len(L) = Min(rargs.limit, Len(forum.hot))
        /\ \A k \in 1..Len(L) :
              /\ DOMAIN L[k] = {"title", "content", "url", "author", "created_utc"}
              /\ L[k].title = forum.hot[k].title
              /\ L[k].content = forum.hot[k].selftext
              /\ L[k].url = forum.hot[k].url
              /\ L[k].created_utc = forum.hot[k].created_utc
              /\ L[k].author = IF forum.hot[k].author = None THEN "Unknown"
                               ELSE forum.hot[k].author

\* the limit cut the listing short, and a delivered post has no author
C14_Witness ==
    /\ FetchReturned("fetch_subreddit_posts")
    /\ DOMAIN rresult = {"posts"}
    /\ rargs.limit = 2
    /\ Len(forum.hot) = 3
    /\ Len(rresult.posts) = 2
    /\ rresult.posts[1].author = "Unknown"
    /\ rresult.posts[2].author = "alice"

RECURSIVE CommentIds(_)
\* the ids of the comments of a forest
CommentIds(forest) ==
    UNION {{forest[k].id} \cup CommentIds(forest[k].replies) : k \in 1..Len(forest)}

\* comment p comes before comment q in the depth-first pre-order: p is an
\* ancestor of q, or where their paths part p takes the earlier branch
PreOrderBefore(p, q) ==
    \/ Len(p) < Len(q) /\ SubSeq(q, 1, Len(p)) = p
    \/ \E k \in 1..Min(Len(p), Len(q)) :
          /\ SubSeq(p, 1, k - 1) = SubSeq(q, 1, k - 1)
          /\ p[k] < q[k]

\* the comments returned are the first min(comment_limit, total) comments
\* of the forest in depth-first pre-order (none for a limit below 0): as
\* many as that, each before the next in pre-order, and every comment left
\* out after every comment returned
FlattenedPrefix ==
    LET returned == rresult.post.comments
        all == CommentIds(forum.comments)
        ids == {returned[k].id : k \in 1..Len(returned)}
    IN  /\ Len(returned) = Max(0, Min(rargs.comment_limit, Cardinality(all)))
        /\ ids \subseteq all
        /\ \A i \in 1..Len(returned) : \A j \in (i + 1)..Len(returned) :
              PreOrderBefore(returned[i].id, returned[j].id)
        /\ \A c \in all \ ids : \A i \in 1..Len(returned) :
              PreOrderBefore(returned[i].id, c)

Asked ==
    {requests[k][2] : k \in {n \in 1..Len(requests) : requests[n][1] = "submission"}}

\* C17: on a service with a client, a post_id that does not start with
\* 'http' is the submission id asked for; for one that does, the client is
\* asked only for the segment after the first 'comments' segment, and in
\* every other case nothing is asked and the result is
\* {'error': 'Invalid Reddit URL format'}.
C17_IdentifierExtraction ==
    (/\ FetchReturned("fetch_single_post")
     /\ ~(DOMAIN rresult = {"error"} /\ rresult.error = NoClientError)) =>
        LET post_id == rargs.post_id
            parts == Split(post_id)
            following ==
                {parts[k + 1] : k \in {n \in 1..(Len(parts) - 1) :
                    /\ parts[n] = <<"comments">>
                    /\ \A j \in 1..(n - 1) : parts[j] # <<"comments">>}}
        IN  IF ~StartsWithHttp(post_id) THEN Asked = {post_id}
            ELSE IF following # {} THEN Asked = following
            ELSE /\ Asked = {}
                 /\ DOMAIN rresult = {"error"}
                 /\ rresult.error = InvalidUrlError

\* C20: when a tool call has returned, no forum client created for a tool
\* call is open.
C20_ClientsClosed ==
    (rpc = "returned" /\ rcaller # "direct") =>
        /\ open_clients["fetch_stocks_subreddit_posts"] = 0
        /\ open_clients["fetch_single_reddit_post"] = 0

\* call i has come past the step that leaves it at one of these places
Past(i, places) == calls[i].raised = "none" /\ calls[i].pc \in places

\* C15: in every interleaving of the steps of two create_plot calls, each
\* call has the datasets, the detail panels and the document that a call
\* alone builds from its own records, the file of each call holds the
\* document of that call, the two files differ, and the palette is the one
\* the service was made with.
C15_NoInterference ==
    /\ palette = colors
    /\ \A i \in Calls :
          /\ Past(i, {"gen_boxes", "gen_html", "create", "write", "open", "returned"}) =>
                calls[i].datasets = _generate_datasets(calls[i].data)
          /\ Past(i, {"gen_html", "create", "write", "open", "returned"}) =>
                calls[i].stock_boxes_html = _generate_stock_boxes_html(calls[i].data)
          /\ Past(i, {"create", "write", "open", "returned"}) =>
                calls[i].html =
                    _get_html_template(_generate_datasets(calls[i].data),
                                       _generate_stock_boxes_html(calls[i].data))
          /\ Past(i, {"write", "open", "returned"}) => files[calls[i].html_path].exists
          /\ Past(i, {"open", "returned"}) =>
                files[calls[i].html_path].content = calls[i].html
          /\ Past(i, {"returned"}) =>
                \E k \in 1..Len(shown) : shown[k] = calls[i].html_path
    /\ (Past(1, {"write", "open", "returned"}) /\ Past(2, {"write", "open", "returned"})) =>
          calls[1].html_path # calls[2].html_path

\* both calls have returned, with different records; call 1 was made first
\* and call 2 overtook it
C15_Witness ==
    /\ Past(1, {"returned"})
    /\ Past(2, {"returned"})
    /\ Len(calls[1].data) = MaxRecords
    /\ Len(calls[2].data) = 2
    /\ started = <<1, 2>>
    /\ shown = <<calls[2].html_path, calls[1].html_path>>

====
